---------------------------- MODULE Spec2Model ----------------------------
(***************************************************************************)
(* A model of src/coreclr/vm/stubhelpers.cpp: the deferred byref           *)
(* validation list (ValidateByref / ProcessByrefValidationList), the       *)
(* synchronous ValidateObject, and the RCW interface-pointer cache lookup  *)
(* (GetCOMIPFromRCW).                                                      *)
(***************************************************************************)
EXTENDS Integers, Sequences, FiniteSets, TLC

(***************************************************************************)
(* Bounds of the model.                                                    *)
(***************************************************************************)
\* width of SIZE_T in bits (the model's machine word)
SizeTBits == 2
\* the high-water mark of the validation list (stubhelpers.h)
BYREF_VALIDATION_LIST_MAX_SIZE == 2
\* number of interface entries cached in an RCW (runtimecallablewrapper.h)
INTERFACE_ENTRY_CACHE_SIZE == 2

\* the mutator threads running stubs
Threads == {1, 2}

(***************************************************************************)
(* The managed heap: two adjacent objects of two words each at addresses   *)
(* 1..4. Addresses 0 (NULL) and 5 lie outside the heap.                    *)
(***************************************************************************)
NULL == 0
ObjA == 1
ObjB == 3
Objects == {ObjA, ObjB}
HeapLo == 1
HeapHi == 4

\* method descs: MD1 is a P/Invoke target, InvokeMD a delegate's Invoke method
MD1 == 1
InvokeMD == 2
Delegate == ObjB

\* the calls the stubs make: <<pByref, pMD, pThis>> of ValidateByref
ByrefCalls == {<<0, MD1, NULL>>, <<5, NULL, NULL>>,
               <<2, NULL, NULL>>, <<3, MD1, NULL>>, <<4, NULL, Delegate>>}
\* and <<pMD, pThis>> of ValidateObject
CallSites == {<<NULL, NULL>>, <<MD1, NULL>>, <<NULL, Delegate>>}

VARIABLES
    mt,            \* mt[o]: the MethodTable pointer stored at offset 0 of object o
    bgc,           \* IsConcurrentGCInProgress()
    entries,       \* s_ByrefValidationEntries (its length is Size())
    index,         \* s_ByrefValidationIndex
    lockOwner,     \* s_ByrefValidationLock: 0 or the thread holding it
    pc,            \* pc[t]: where thread t is inside ValidateByref
    tEntry,        \* tEntry[t]: the local 'entry' of ValidateByref
    numOf,         \* numOf[t]: the local NumOfEntries of ValidateByref
    grew,          \* grew[t]: this call of ValidateByref resized the list
    result,        \* result[t]: how the call thread t is returning from ended
    gcPhase,       \* "none", "suspended" (EE suspended, list being processed), "drained"
    drainI,        \* the loop variable i of ProcessByrefValidationList
    drainEntry,    \* the local 'entry' of ProcessByrefValidationList
    drainNext,     \* nextObj and the local pMT of ValidateObjectInternal in the loop
    visited,       \* objects handed to ValidateObjectInternal by the current/last drain
    appended,      \* entries whose append completed since the last drain began
    snap,          \* the value of 'appended' when the current/last drain began
    oobWrite,      \* an append wrote at an index >= Size()
    terminated,    \* EEPOLICY_HANDLE_FATAL_ERROR has been called
    terminateCalls,\* number of calls of EEPOLICY_HANDLE_FATAL_ERROR*
    termMsg,       \* the message handed to it (<<>>: none)
    termBy,        \* who called it: <<"drain", i>> or <<"ValidateObject", t>>
    crashed,       \* the process died of an access violation outside any handler
    hasRCW,        \* GetRawRCW() of the object is not NULL
    cache,         \* pRCW->m_aInterfaceEntries
    wrapperCtx,    \* pRCW->GetWrapperCtxCookie()
    freeThreaded,  \* pRCW->IsFreeThreaded()
    comPc,         \* where the stub is inside GetCOMIPFromRCW
    comArgs,       \* the call site (interface type, cached slot) and the caller's context
    comRes,        \* what the call returns: pointer, *ppTarget, *pfNeedsRelease
    slowCalls,     \* calls of the resolver made by the current call
    vNext,         \* vNext[t]: nextObj and the local pMT of ValidateObjectInternal
    rd,            \* a stub scanning the cache: loop index i, interface, pointer read
    sizeBits       \* width of SIZE_T in bits in this build

qvars == <<mt, bgc, entries, index, lockOwner, pc, tEntry, numOf, grew, result,
           gcPhase, drainI, drainEntry, drainNext, visited, appended, snap, oobWrite, terminated, terminateCalls, termMsg, termBy,
           crashed>>

comVars == <<hasRCW, cache, wrapperCtx, freeThreaded, comPc, comArgs, comRes, slowCalls>>

raceVars == <<vNext, rd>>

vars == <<qvars, comVars, raceVars, sizeBits>>

\* the largest SIZE_T
SIZE_T_MAX == 2^sizeBits - 1

\* interface types, dispatch-table slots and contexts of the COM calls
Interfaces == {1, 2, 3}
Slots == {0, 1}
Contexts == {1, 2}
FreeEntry == [m_pMT |-> NULL, m_pUnknown |-> NULL]

(***************************************************************************)
(* External collaborators of the GC heap.                                  *)
(***************************************************************************)
\* IGCHeap::IsHeapPointer
IsHeapPointer(p) == p >= HeapLo /\ p <= HeapHi

\* IGCHeap::GetContainingObject: the object whose extent holds address p
GetContainingObject(p) ==
    IF IsHeapPointer(p) THEN p - ((p - HeapLo) % 2) ELSE NULL

\* IGCHeap::NextObj: the object that follows o in the heap
NextObj(o) == IF o = ObjA THEN ObjB ELSE NULL

\* Object::Validate throws (or faults) on an object whose MethodTable is bad
ValidateThrows(m, o) == o # NULL /\ m[o] \in {"corrupt", "null"}

\* the MethodTable values the next-object check treats as "not an object yet"
g_pFreeObjectMethodTable == "free"

(***************************************************************************)
(* StubHelpers::ResolveInteropMethod and FormatValidationMessage.          *)
(***************************************************************************)
GetInvokeMethod(pThis) == InvokeMD

\* lines 85-98: what the call can do, as records [crash, md]. For a call through
\* a delegate the header of the delegate is dereferenced (lines 92-95); when
\* its MethodTable pointer was overwritten this is an access through a wild
\* pointer: an access violation, or whatever method desc the bytes found there
\* give.
MethodDescs == {NULL, MD1, InvokeMD}
Resolved(md) == [crash |-> FALSE, md |-> md]
AccessViolation == [crash |-> TRUE, md |-> NULL]
ResolveInteropMethod(m, pThis, pMD) ==
    IF pMD = NULL /\ pThis # NULL
    THEN IF m[pThis] = "legal"
         THEN {Resolved(GetInvokeMethod(pThis))}
         ELSE {AccessViolation} \cup {Resolved(md) : md \in MethodDescs}
    ELSE {Resolved(pMD)}

ClassNameOf(pMD) == IF pMD = MD1 THEN "NativeMethods" ELSE "Callback"
MethodNameOf(pMD) == IF pMD = MD1 THEN "Fill" ELSE "Invoke"

FormatValidationMessage(pMD) ==
    <<"Detected managed heap corruption, likely culprit is interop call through ">>
    \o (IF pMD = NULL
        THEN <<"CALLI.">>
        ELSE <<"method '", ClassNameOf(pMD), ".", MethodNameOf(pMD), "'.">>)

NoMessage == <<>>

(***************************************************************************)
(* The validation list.                                                    *)
(***************************************************************************)
NoEntry == [pByref |-> NULL, pMD |-> NULL]
NoDrainNext == [next |-> NULL, pMT |-> "unread"]

\* CQuickArray::ReSizeThrows: a buffer of newSize slots that keeps the old contents
ReSizeThrows(buf, newSize) ==
    [i \in 1..newSize |-> IF i <= Len(buf) THEN buf[i] ELSE NoEntry]

\* ClrSafeInt<SIZE_T>::multiply / addition: FALSE on overflow
SafeMultiplyOk(a, b) == a * b <= SIZE_T_MAX
SafeAdditionOk(a, b) == a + b <= SIZE_T_MAX

\* line 682
NeedsResizeOff(idx, size) == idx > size
NeedsResize(idx, size) == idx >= size

\* lines 686-687
NewSizeNeverOverflows(idx) == FALSE
NewSizeOverflows(idx) ==
    \/ ~SafeMultiplyOk(idx, 2)
    \/ ~SafeAdditionOk((idx * 2) % (SIZE_T_MAX + 1), 1)
NewSize(idx) == idx * 2 + 1

\* line 696: the slot an append writes
WriteSlotFirst(idx) == 1
WriteSlot(idx) == idx + 1
StoreEntry(buf, idx, e) ==
    IF WriteSlot(idx) \in 1..Len(buf) THEN [buf EXCEPT ![WriteSlot(idx)] = e] ELSE buf

\* CrstHolder ch(&s_ByrefValidationLock): the lock is granted only when free
LockAlwaysGranted(owner) == TRUE
LockGranted(owner) == owner = 0

\* the validation list after StubHelpers::Init (lines 31-40), no call in progress
InitList ==
    /\ bgc = FALSE
    /\ entries = <<>>
    /\ index = 0
    /\ lockOwner = 0
    /\ pc = [t \in Threads |-> "idle"]
    /\ tEntry = [t \in Threads |-> NoEntry]
    /\ numOf = [t \in Threads |-> 0]
    /\ grew = [t \in Threads |-> FALSE]
    /\ result = [t \in Threads |-> "none"]
    /\ gcPhase = "none"
    /\ drainI = 0
    /\ drainEntry = NoEntry
    /\ drainNext = NoDrainNext
    /\ visited = <<>>
    /\ appended = <<>>
    /\ snap = <<>>
    /\ oobWrite = FALSE
    /\ terminated = FALSE
    /\ crashed = FALSE
    /\ terminateCalls = 0
    /\ termMsg = NoMessage
    /\ termBy = <<>>

\* a wrapper whose interface cache is still empty, no call in progress
InitWrapper ==
    /\ cache = [i \in 1..INTERFACE_ENTRY_CACHE_SIZE |-> FreeEntry]
    /\ comPc = "idle"
    /\ comArgs = [itf |-> 1, slot |-> 0, cur |-> 1]
    /\ comRes = [status |-> "none", pUnk |-> NULL, target |-> NULL, needsRelease |-> FALSE]
    /\ slowCalls = 0

\* no validation of a next object and no access to the cache in progress
NoNext == [obj |-> NULL, next |-> NULL, pMT |-> "unread", pMD |-> NULL, pThis |-> NULL]
NoRead == [pc |-> "idle", itf |-> NULL, i |-> 0, ret |-> NULL]
InitRace ==
    /\ vNext = [t \in Threads |-> NoNext]
    /\ rd = NoRead

\* the object after ObjA is a live object or a free one
Init ==
    /\ InitList
    /\ InitWrapper
    /\ InitRace
    /\ mt \in [Objects -> {"legal", "free"}]
    /\ mt[ObjA] = "legal"
    /\ hasRCW = TRUE
    /\ wrapperCtx = 1
    /\ freeThreaded = FALSE
    /\ sizeBits = SizeTBits

\* the same with a SIZE_T one bit wider: the list can grow past the high-water
\* mark by an entry of each thread before the overflow test of line 686 stops it
InitWide ==
    /\ InitList
    /\ InitWrapper
    /\ InitRace
    /\ mt \in [Objects -> {"legal", "free"}]
    /\ mt[ObjA] = "legal"
    /\ hasRCW = TRUE
    /\ wrapperCtx = 1
    /\ freeThreaded = FALSE
    /\ sizeBits = SizeTBits + 1

\* any wrapper: bound to a context or free-threaded, or already released
InitCom ==
    /\ InitList
    /\ InitWrapper
    /\ InitRace
    /\ mt = [o \in Objects |-> "legal"]
    /\ hasRCW \in BOOLEAN
    /\ wrapperCtx \in Contexts
    /\ freeThreaded \in BOOLEAN
    /\ sizeBits = SizeTBits

\* the process has ended, by the fatal-error handler or by an access violation
Dead == terminated \/ crashed

Running == ~Dead /\ gcPhase = "none"

heapVars == <<mt, bgc>>
drainVars == <<gcPhase, drainI, drainEntry, drainNext, visited, snap>>
termVars == <<terminated, terminateCalls, termMsg, termBy, crashed>>
listVars == <<entries, index, oobWrite, appended>>
localVars == <<tEntry, numOf, grew>>

(***************************************************************************)
(* StubHelpers::ValidateByref, lines 658-712.                              *)
(***************************************************************************)
\* line 668: skip the byref if it is not pointing inside the managed heap
SkipByrefNull(pByref) == pByref = NULL
SkipByref(pByref) == ~IsHeapPointer(pByref)

\* lines 668-676: the heap-range test and the construction of the entry
ValidateByref(t, pByref, pMD, pThis) ==
    /\ Running
    /\ pc[t] = "idle"
    /\ IF SkipByref(pByref)
       THEN /\ result' = [result EXCEPT ![t] = "noop"]
            /\ pc' = [pc EXCEPT ![t] = "ret"]
            /\ UNCHANGED tEntry
            /\ UNCHANGED termVars
       ELSE \E r \in ResolveInteropMethod(mt, pThis, pMD) :
              IF r.crash
              THEN /\ crashed' = TRUE
                   /\ UNCHANGED <<tEntry, pc, result, terminated, terminateCalls,
                                  termMsg, termBy>>
              ELSE /\ tEntry' = [tEntry EXCEPT ![t] = [pByref |-> pByref, pMD |-> r.md]]
                   /\ pc' = [pc EXCEPT ![t] = "lock"]
                   /\ UNCHANGED <<result, termVars>>
    /\ UNCHANGED <<heapVars, drainVars, listVars, lockOwner, numOf, grew>>

\* line 680: CrstHolder takes the lock
AcquireLock(t) ==
    /\ Running
    /\ pc[t] = "lock"
    /\ LockGranted(lockOwner)
    /\ lockOwner' = t
    /\ pc' = [pc EXCEPT ![t] = "check"]
    /\ UNCHANGED <<heapVars, drainVars, termVars, listVars, localVars, result>>

\* lines 682-694: grow the list when it is full
\* ThrowHR(COR_E_OVERFLOW) and a throwing ReSizeThrows both unwind through the
\* CrstHolder, which releases the lock, and leave the call with an exception.
CheckCapacity(t) ==
    /\ Running
    /\ pc[t] = "check"
    /\ IF NeedsResize(index, Len(entries))
       THEN IF NewSizeOverflows(index)
            THEN /\ result' = [result EXCEPT ![t] = "overflow"]
                 /\ pc' = [pc EXCEPT ![t] = "ret"]
                 /\ tEntry' = [tEntry EXCEPT ![t] = NoEntry]
                 /\ lockOwner' = 0
                 /\ UNCHANGED <<entries, grew>>
            ELSE \/ /\ entries' = ReSizeThrows(entries, NewSize(index))
                    /\ grew' = [grew EXCEPT ![t] = TRUE]
                    /\ pc' = [pc EXCEPT ![t] = "write"]
                    /\ UNCHANGED <<result, tEntry, lockOwner>>
                 \/ /\ result' = [result EXCEPT ![t] = "oom"]
                    /\ pc' = [pc EXCEPT ![t] = "ret"]
                    /\ tEntry' = [tEntry EXCEPT ![t] = NoEntry]
                    /\ lockOwner' = 0
                    /\ UNCHANGED <<entries, grew>>
       ELSE /\ pc' = [pc EXCEPT ![t] = "write"]
            /\ UNCHANGED <<entries, grew, result, tEntry, lockOwner>>
    /\ UNCHANGED <<heapVars, drainVars, termVars, index, oobWrite, appended, numOf>>

\* line 696: s_ByrefValidationEntries[s_ByrefValidationIndex] = entry
WriteEntry(t) ==
    /\ Running
    /\ pc[t] = "write"
    /\ entries' = StoreEntry(entries, index, tEntry[t])
    /\ oobWrite' = (oobWrite \/ WriteSlot(index) > Len(entries))
    /\ pc' = [pc EXCEPT ![t] = "inc"]
    /\ UNCHANGED <<heapVars, drainVars, termVars, index, appended, localVars,
                   lockOwner, result>>

\* line 698: the scope of the CrstHolder ends before the high-water-mark test
LockKeptByHolder(t) == t
LockAfterScope(t) == 0

\* lines 697-698: NumOfEntries = ++s_ByrefValidationIndex; the holder releases the lock
IncrementIndex(t) ==
    /\ Running
    /\ pc[t] = "inc"
    /\ index' = index + 1
    /\ numOf' = [numOf EXCEPT ![t] = index + 1]
    /\ appended' = Append(appended, tEntry[t])
    /\ lockOwner' = LockAfterScope(t)
    /\ pc' = [pc EXCEPT ![t] = "post"]
    /\ tEntry' = [tEntry EXCEPT ![t] = NoEntry]
    /\ grew' = [grew EXCEPT ![t] = FALSE]
    /\ UNCHANGED <<heapVars, drainVars, termVars, entries, oobWrite, result>>

\* line 700: the test reads the local NumOfEntries, not the shared index
ListTooBigShared(t) == index > BYREF_VALIDATION_LIST_MAX_SIZE
ListTooBigLate(t) == numOf[t] > BYREF_VALIDATION_LIST_MAX_SIZE + 1
ListTooBig(t) == numOf[t] > BYREF_VALIDATION_LIST_MAX_SIZE

\* lines 700-706: request a collection when the list is too big, then return
CheckHighWaterMark(t) ==
    /\ Running
    /\ pc[t] = "post"
    /\ IF ListTooBig(t)
       THEN /\ pc' = [pc EXCEPT ![t] = "gc"]
            /\ UNCHANGED result
       ELSE /\ pc' = [pc EXCEPT ![t] = "ret"]
            /\ result' = [result EXCEPT ![t] = "appended"]
    /\ numOf' = [numOf EXCEPT ![t] = 0]
    /\ UNCHANGED <<heapVars, drainVars, termVars, listVars, lockOwner, tEntry, grew>>

\* the call returns to the stub (or unwinds to it)
Return(t) ==
    /\ Running
    /\ pc[t] = "ret"
    /\ pc' = [pc EXCEPT ![t] = "idle"]
    /\ result' = [result EXCEPT ![t] = "none"]
    /\ UNCHANGED <<heapVars, drainVars, termVars, listVars, lockOwner, localVars>>


(***************************************************************************)
(* The collector: it suspends the EE, processes the validation list and    *)
(* resumes. Line 151-152: "EE is suspended at this point so we don't have  *)
(* to take locks". A thread is only suspended where it can be, which is    *)
(* not between taking the lock and the end of the frame.                   *)
(***************************************************************************)
AtSafePoint(t) == pc[t] \in {"idle", "lock", "gc", "ret"}

SuspendEE ==
    /\ Running
    /\ \A t \in Threads : AtSafePoint(t)
    /\ gcPhase' = "suspended"
    /\ drainI' = 0
    /\ drainEntry' = NoEntry
    /\ drainNext' = NoDrainNext
    /\ visited' = <<>>
    /\ snap' = appended
    /\ appended' = <<>>
    /\ UNCHANGED <<heapVars, termVars, entries, index, oobWrite, lockOwner, pc,
                   localVars, result>>

\* line 155: entry = s_ByrefValidationEntries[i]
EntryAt(buf, i) == IF i + 1 \in 1..Len(buf) THEN buf[i + 1] ELSE NoEntry

\* line 165: the method the diagnostic blames
BlamedFirst(e, buf) == EntryAt(buf, 0).pMD
Blamed(e, buf) == e.pMD

\* lines 163-172: the handler ends in a fatal error whether or not the message
\* could be formatted
FatalOnlyWithMessage(fmtOk) == fmtOk
FatalInHandler(fmtOk) == TRUE

\* line 176
IndexAfterDrainKept(idx) == idx
IndexAfterDrain(idx) == 0

\* line 74: both tests are made on the value that was read once
SecondTestRereads(read, now) == now
SecondTestOperand(read, now) == read

\* lines 74-79: the next object is validated, as it is now, when the value read
\* at line 73 is neither NULL nor the free-object MethodTable; TRUE iff it throws
ValidateNextThrows(m, nextObj, read) ==
    /\ read # "null"
    /\ SecondTestOperand(read, m[nextObj]) # g_pFreeObjectMethodTable
    /\ ValidateThrows(m, nextObj)

\* lines 161-174: the handler of a failure in the loop
CatchInDrain(entry) ==
    \E fmtOk \in BOOLEAN :
        IF FatalInHandler(fmtOk)
        THEN /\ termMsg' = IF fmtOk
                            THEN FormatValidationMessage(Blamed(entry, entries))
                            ELSE NoMessage
             /\ terminated' = TRUE
             /\ terminateCalls' = terminateCalls + 1
             /\ termBy' = <<"drain", drainI>>
             /\ UNCHANGED <<drainI, crashed>>
        ELSE /\ drainI' = drainI + 1
             /\ UNCHANGED termVars

\* lines 153-157 and 55-67: an iteration of the loop begins: the entry is loaded,
\* its object validated, and NextObj asked (fValidateNextObj is TRUE, line 157)
DrainStep ==
    /\ ~Dead
    /\ gcPhase = "suspended"
    /\ drainI < index
    /\ drainNext = NoDrainNext
    /\ LET entry == EntryAt(entries, drainI)
           pObj == GetContainingObject(entry.pByref)
       IN /\ drainEntry' = entry
          /\ visited' = Append(visited, pObj)
          /\ IF ValidateThrows(mt, pObj)
             THEN CatchInDrain(entry) /\ UNCHANGED drainNext
             ELSE IF NextObj(pObj) # NULL
             THEN /\ drainNext' = [next |-> NextObj(pObj), pMT |-> "unread"]
                  /\ UNCHANGED <<drainI, termVars>>
             ELSE /\ drainI' = drainI + 1
                  /\ UNCHANGED <<drainNext, termVars>>
    /\ UNCHANGED <<heapVars, listVars, lockOwner, pc, localVars, result, gcPhase,
                   snap>>

\* line 73, called from the loop
DrainReadNext ==
    /\ ~Dead
    /\ gcPhase = "suspended"
    /\ drainNext # NoDrainNext
    /\ drainNext.pMT = "unread"
    /\ drainNext' = [drainNext EXCEPT !.pMT = mt[drainNext.next]]
    /\ UNCHANGED <<heapVars, listVars, lockOwner, pc, localVars, result, gcPhase,
                   snap, drainI, drainEntry, visited, termVars>>

\* lines 74-79, called from the loop; without a failure the loop goes on
DrainValidateNext ==
    /\ ~Dead
    /\ gcPhase = "suspended"
    /\ drainNext # NoDrainNext
    /\ drainNext.pMT # "unread"
    /\ drainNext' = NoDrainNext
    /\ IF ValidateNextThrows(mt, drainNext.next, drainNext.pMT)
       THEN CatchInDrain(drainEntry)
       ELSE /\ drainI' = drainI + 1
            /\ UNCHANGED termVars
    /\ UNCHANGED <<heapVars, listVars, lockOwner, pc, localVars, result, gcPhase,
                   snap, drainEntry, visited>>

\* line 176: s_ByrefValidationIndex = 0
DrainEnd ==
    /\ ~Dead
    /\ gcPhase = "suspended"
    /\ ~(drainI < index)
    /\ index' = IndexAfterDrain(index)
    /\ gcPhase' = "drained"
    /\ UNCHANGED <<heapVars, termVars, entries, oobWrite, appended, lockOwner, pc,
                   localVars, result, drainI, drainEntry, drainNext, visited, snap>>

\* the EE resumes; GarbageCollect(0) (line 703) returns to the threads that called it
ResumeEE ==
    /\ ~Dead
    /\ gcPhase = "drained"
    /\ gcPhase' = "none"
    /\ drainI' = 0
    /\ drainEntry' = NoEntry
    /\ drainNext' = NoDrainNext
    /\ visited' = <<>>
    /\ snap' = <<>>
    /\ pc' = [t \in Threads |-> IF pc[t] = "gc" THEN "ret" ELSE pc[t]]
    /\ result' = [t \in Threads |-> IF pc[t] = "gc" THEN "appended_gc" ELSE result[t]]
    /\ UNCHANGED <<heapVars, termVars, listVars, lockOwner, localVars>>


(***************************************************************************)
(* StubHelpers::ValidateObject, lines 628-656, with ValidateObjectInternal *)
(* (lines 43-82) taken one access to the heap at a time: the collector and *)
(* the allocator can change the next object's MethodTable pointer between  *)
(* them (lines 68-72, 639-640).                                            *)
(***************************************************************************)
\* line 641: the next object is asked for unless a background GC is in progress
ValidateNextAlways(concurrentGC) == TRUE
ValidateNextUnlessBGC(concurrentGC) == ~concurrentGC

\* lines 643-647: the EX_CATCH of ValidateObject. ResolveInteropMethod runs
\* outside the EX_TRY and its AVInRuntimeImplOkayHolder; FormatValidationMessage
\* can throw and nothing here catches it.
CatchInValidateObject(t, pMD, pThis) ==
    \E r \in ResolveInteropMethod(mt, pThis, pMD), fmtOk \in BOOLEAN :
        IF r.crash
        THEN /\ crashed' = TRUE
             /\ UNCHANGED <<result, pc, terminated, terminateCalls, termMsg, termBy>>
        ELSE IF fmtOk
        THEN /\ terminated' = TRUE
             /\ terminateCalls' = terminateCalls + 1
             /\ termMsg' = FormatValidationMessage(r.md)
             /\ termBy' = <<"ValidateObject", t>>
             /\ UNCHANGED <<result, pc, crashed>>
        ELSE /\ result' = [result EXCEPT ![t] = "format_exception"]
             /\ pc' = [pc EXCEPT ![t] = "ret"]
             /\ UNCHANGED termVars

ReturnValid(t) ==
    /\ result' = [result EXCEPT ![t] = "valid"]
    /\ pc' = [pc EXCEPT ![t] = "ret"]
    /\ UNCHANGED termVars

\* lines 641 and 55-67: the flag is computed, the object itself is validated,
\* then NextObj is asked
ValidateObject(t, pObj, pMD, pThis) ==
    /\ Running
    /\ pc[t] = "idle"
    /\ LET fValidateNextObj == ValidateNextUnlessBGC(bgc)
           call == [obj |-> pObj, next |-> NULL, pMT |-> "unread",
                    pMD |-> pMD, pThis |-> pThis]
       IN IF ValidateThrows(mt, pObj)
          THEN /\ CatchInValidateObject(t, pMD, pThis)
               /\ vNext' = [vNext EXCEPT ![t] = call]
          ELSE IF fValidateNextObj /\ NextObj(pObj) # NULL
          THEN /\ vNext' = [vNext EXCEPT ![t] = [call EXCEPT !.next = NextObj(pObj)]]
               /\ pc' = [pc EXCEPT ![t] = "vread"]
               /\ UNCHANGED <<result, termVars>>
          ELSE /\ ReturnValid(t)
               /\ vNext' = [vNext EXCEPT ![t] = call]
    /\ UNCHANGED <<heapVars, drainVars, listVars, lockOwner, localVars>>

\* line 73: MethodTable *pMT = VolatileLoad(nextObj->GetMethodTablePtr())
ReadNextMethodTable(t) ==
    /\ Running
    /\ pc[t] = "vread"
    /\ vNext' = [vNext EXCEPT ![t].pMT = mt[vNext[t].next]]
    /\ pc' = [pc EXCEPT ![t] = "vtest"]
    /\ UNCHANGED <<heapVars, drainVars, termVars, listVars, lockOwner, localVars, result>>

\* lines 74-79: the test on the value read and the validation of the next object
ValidateNextObj(t) ==
    /\ Running
    /\ pc[t] = "vtest"
    /\ IF ValidateNextThrows(mt, vNext[t].next, vNext[t].pMT)
       THEN CatchInValidateObject(t, vNext[t].pMD, vNext[t].pThis)
       ELSE ReturnValid(t)
    /\ UNCHANGED <<heapVars, drainVars, listVars, lockOwner, localVars, vNext>>

(***************************************************************************)
(* The environment: foreign code writing through raw pointers, and the     *)
(* collector and allocator changing MethodTable pointers (lines 68-72,     *)
(* 639-640).                                                               *)
(***************************************************************************)
ForeignWrite(o) ==
    /\ ~Dead
    /\ mt[o] = "legal"
    /\ mt' = [mt EXCEPT ![o] = "corrupt"]
    /\ UNCHANGED <<bgc, drainVars, termVars, listVars, lockOwner, pc, localVars, result>>

MethodTableTransition(o) ==
    /\ ~Dead
    /\ \/ mt[o] = g_pFreeObjectMethodTable /\ mt' = [mt EXCEPT ![o] = "null"]
       \/ mt[o] = "null" /\ mt' = [mt EXCEPT ![o] = "legal"]
       \/ mt[o] = g_pFreeObjectMethodTable /\ mt' = [mt EXCEPT ![o] = "legal"]
    /\ UNCHANGED <<bgc, drainVars, termVars, listVars, lockOwner, pc, localVars, result>>

BackgroundGC ==
    /\ ~Dead
    /\ bgc' = ~bgc
    /\ UNCHANGED <<mt, drainVars, termVars, listVars, lockOwner, pc, localVars, result>>

BackgroundSweep ==
    /\ ~Dead
    /\ bgc
    /\ mt[ObjB] = "legal"
    /\ mt' = [mt EXCEPT ![ObjB] = g_pFreeObjectMethodTable]
    /\ UNCHANGED <<bgc, drainVars, termVars, listVars, lockOwner, pc, localVars, result>>

(***************************************************************************)
(* CLR->COM calls: GetCOMIPFromRCW, lines 222-325.                         *)
(***************************************************************************)
\* IUnknown::QueryInterface on the wrapped object: a pure function of the interface
QueryInterface(itf) == 10 + itf

\* the dispatch table of an interface pointer; slot 1 of interface 3 is empty
VtblSlot(pUnk, slot) == IF pUnk = QueryInterface(3) /\ slot = 1 THEN NULL ELSE 10 * pUnk + slot

\* line 231: the context test
ContextOkNoFreeThreaded(cur, cookie, isFree) == cur = cookie
ContextOkAlways(cur, cookie, isFree) == TRUE
ContextOk(cur, cookie, isFree) == cur = cookie \/ isFree

\* lines 233-239: the first entry of the interface type, from index i on
RECURSIVE ScanCache(_, _, _)
ScanCache(c, itf, i) ==
    IF i > INTERFACE_ENTRY_CACHE_SIZE THEN NULL
    ELSE IF c[i].m_pMT = itf THEN c[i].m_pUnknown
    ELSE ScanCache(c, itf, i + 1)

\* lines 222-243
GetIUnknownFromRCWCache(c, cookie, isFree, cur, itf) ==
    IF ContextOk(cur, cookie, isFree) THEN ScanCache(c, itf, 1) ELSE NULL

\* lines 245-252
GetTargetSlotZero(pUnk, slot) == VtblSlot(pUnk, 0)
GetTarget(pUnk, slot) == VtblSlot(pUnk, slot)

\* lines 306-318: the fast path returns a pointer, or NULL to fall through
FastPathNoTargetTest(has, c, cookie, isFree, cur, itf, slot) ==
    IF has THEN GetIUnknownFromRCWCache(c, cookie, isFree, cur, itf) ELSE NULL
FastPath(has, c, cookie, isFree, cur, itf, slot) ==
    LET pUnk == IF has THEN GetIUnknownFromRCWCache(c, cookie, isFree, cur, itf) ELSE NULL
    IN IF pUnk # NULL /\ GetTarget(pUnk, slot) # NULL THEN pUnk ELSE NULL

\* line 302 and line 322: *pfNeedsRelease
NeedsReleaseNever(slow) == FALSE
NeedsRelease(slow) == slow

NoResult == [status |-> "none", pUnk |-> NULL, target |-> NULL, needsRelease |-> FALSE]

\* lines 292-319
GetCOMIPFromRCW(itf, slot, cur) ==
    /\ comPc = "idle"
    /\ comArgs' = [itf |-> itf, slot |-> slot, cur |-> cur]
    /\ slowCalls' = 0
    /\ LET pUnk == FastPath(hasRCW, cache, wrapperCtx, freeThreaded, cur, itf, slot)
       IN IF pUnk # NULL
          THEN /\ comRes' = [status |-> "ok", pUnk |-> pUnk, target |-> GetTarget(pUnk, slot),
                             needsRelease |-> NeedsRelease(FALSE)]
               /\ comPc' = "ret"
          ELSE /\ comRes' = [NoResult EXCEPT !.needsRelease = NeedsRelease(TRUE)]
               /\ comPc' = "slow"
    /\ UNCHANGED <<cache, wrapperCtx, freeThreaded, hasRCW>>

\* ComObject::GetComIPFromRCWThrowing stores what it resolved in the wrapper's cache:
\* in the entry of that interface, else in a free entry, else in place of some entry
CacheSlots(c, itf) ==
    LET same == {i \in 1..INTERFACE_ENTRY_CACHE_SIZE : c[i].m_pMT = itf}
        free == {i \in 1..INTERFACE_ENTRY_CACHE_SIZE : c[i].m_pMT = NULL}
    IN IF same # {} THEN same
       ELSE IF free # {} THEN free
       ELSE 1..INTERFACE_ENTRY_CACHE_SIZE
CachePopulate(c, itf, pUnk) ==
    LET e == [m_pMT |-> itf, m_pUnknown |-> pUnk]
    IN {[c EXCEPT ![i] = e] : i \in CacheSlots(c, itf)}

\* lines 263-271 and 323: nothing between the resolver and the stub catches what
\* the resolver throws, and *ppTarget (line 268) is not written
ResolverThrowSwallowed(res) == [res EXCEPT !.status = "ok"]
ResolverThrows(res) == [res EXCEPT !.status = "exception"]

\* lines 254-280 and 321-323: the slow path; the resolver succeeds or throws
GetCOMIPFromRCWHelper ==
    /\ comPc = "slow"
    /\ slowCalls' = slowCalls + 1
    /\ comPc' = "ret"
    /\ \/ /\ hasRCW
          /\ LET pRetUnk == QueryInterface(comArgs.itf)
             IN /\ cache' \in CachePopulate(cache, comArgs.itf, pRetUnk)
                /\ comRes' = [comRes EXCEPT !.status = "ok", !.pUnk = pRetUnk,
                                            !.target = GetTarget(pRetUnk, comArgs.slot)]
       \/ /\ comRes' = ResolverThrows(comRes)
          /\ UNCHANGED cache
    /\ UNCHANGED <<comArgs, wrapperCtx, freeThreaded, hasRCW>>

\* the stub makes the call and comes back for the next one
ReturnCom ==
    /\ comPc = "ret"
    /\ comPc' = "idle"
    /\ comRes' = NoResult
    /\ slowCalls' = 0
    /\ UNCHANGED <<cache, comArgs, wrapperCtx, freeThreaded, hasRCW>>

(***************************************************************************)
(* The lookup of lines 222-243 again, one read of the cache at a time,     *)
(* while the resolvers of other calls on the same wrapper refresh the      *)
(* cache. The cache has no lock.                                           *)
(***************************************************************************)
\* lines 228-231: the lookup begins; without the RCW (line 306) or in another
\* context it yields NULL at once
LookupEnter(itf, cur) ==
    /\ rd.pc = "idle"
    /\ rd' = IF hasRCW /\ ContextOk(cur, wrapperCtx, freeThreaded)
             THEN [pc |-> "m_pMT", itf |-> itf, i |-> 1, ret |-> NULL]
             ELSE [pc |-> "done", itf |-> itf, i |-> 0, ret |-> NULL]
    /\ UNCHANGED cache

\* lines 233-235: i < INTERFACE_ENTRY_CACHE_SIZE, then the read of m_pMT
LookupReadMT ==
    /\ rd.pc = "m_pMT"
    /\ rd' = IF rd.i > INTERFACE_ENTRY_CACHE_SIZE THEN [rd EXCEPT !.pc = "done"]
             ELSE IF cache[rd.i].m_pMT = rd.itf THEN [rd EXCEPT !.pc = "m_pUnknown"]
             ELSE [rd EXCEPT !.i = rd.i + 1]
    /\ UNCHANGED cache

\* line 237: the read of m_pUnknown of the same index
LookupReadUnknown ==
    /\ rd.pc = "m_pUnknown"
    /\ rd' = [rd EXCEPT !.pc = "done", !.ret = cache[rd.i].m_pUnknown]
    /\ UNCHANGED cache

\* lines 309-318: the stub goes on with what the lookup returned
LookupLeave ==
    /\ rd.pc = "done"
    /\ rd' = NoRead
    /\ UNCHANGED cache

\* lines 321-323 and 254-280 in another call of GetCOMIPFromRCW on the wrapper:
\* its resolver stores what it resolved, as the one of GetCOMIPFromRCWHelper
\* does: the whole entry at once, in the entry of its interface, else in a free
\* entry, else in place of some entry
Refresh(itf) ==
    /\ hasRCW
    /\ cache' \in CachePopulate(cache, itf, QueryInterface(itf))
    /\ UNCHANGED rd

otherVars == <<hasRCW, wrapperCtx, freeThreaded, comPc, comArgs, comRes, slowCalls, vNext>>

NextCacheRace ==
    \/ \E itf \in Interfaces, cur \in Contexts :
            LookupEnter(itf, cur) /\ UNCHANGED <<sizeBits, qvars, otherVars>>
    \/ LookupReadMT /\ UNCHANGED <<sizeBits, qvars, otherVars>>
    \/ LookupReadUnknown /\ UNCHANGED <<sizeBits, qvars, otherVars>>
    \/ LookupLeave /\ UNCHANGED <<sizeBits, qvars, otherVars>>
    \/ \E itf \in Interfaces : Refresh(itf) /\ UNCHANGED <<sizeBits, qvars, otherVars>>

SpecCacheRace == InitCom /\ [][NextCacheRace]_vars

(***************************************************************************)
(* The specifications: the validation list with its collector, the         *)
(* synchronous validation with the heap changing under it, and the COM     *)
(* calls of one stub.                                                      *)
(***************************************************************************)
Next ==
    \/ \E t \in Threads, c \in ByrefCalls :
            ValidateByref(t, c[1], c[2], c[3]) /\ UNCHANGED <<sizeBits, comVars, raceVars>>
    \/ \E t \in Threads : AcquireLock(t) /\ UNCHANGED <<sizeBits, comVars, raceVars>>
    \/ \E t \in Threads : CheckCapacity(t) /\ UNCHANGED <<sizeBits, comVars, raceVars>>
    \/ \E t \in Threads : WriteEntry(t) /\ UNCHANGED <<sizeBits, comVars, raceVars>>
    \/ \E t \in Threads : IncrementIndex(t) /\ UNCHANGED <<sizeBits, comVars, raceVars>>
    \/ \E t \in Threads : CheckHighWaterMark(t) /\ UNCHANGED <<sizeBits, comVars, raceVars>>
    \/ \E t \in Threads : Return(t) /\ UNCHANGED <<sizeBits, comVars, raceVars>>
    \/ SuspendEE /\ UNCHANGED <<sizeBits, comVars, raceVars>>
    \/ DrainStep /\ UNCHANGED <<sizeBits, comVars, raceVars>>
    \/ DrainReadNext /\ UNCHANGED <<sizeBits, comVars, raceVars>>
    \/ DrainValidateNext /\ UNCHANGED <<sizeBits, comVars, raceVars>>
    \/ DrainEnd /\ UNCHANGED <<sizeBits, comVars, raceVars>>
    \/ ResumeEE /\ UNCHANGED <<sizeBits, comVars, raceVars>>
    \/ \E o \in {ObjB} : ForeignWrite(o) /\ UNCHANGED <<sizeBits, comVars, raceVars>>

Spec == Init /\ [][Next]_vars

NextValidate ==
    \/ \E t \in Threads, o \in {NULL, ObjA, ObjB}, c \in CallSites :
            ValidateObject(t, o, c[1], c[2]) /\ UNCHANGED <<sizeBits, comVars, rd>>
    \/ \E t \in Threads : ReadNextMethodTable(t) /\ UNCHANGED <<sizeBits, comVars, rd>>
    \/ \E t \in Threads : ValidateNextObj(t) /\ UNCHANGED <<sizeBits, comVars, rd>>
    \/ \E t \in Threads : Return(t) /\ UNCHANGED <<sizeBits, comVars, raceVars>>
    \/ \E o \in Objects : ForeignWrite(o) /\ UNCHANGED <<sizeBits, comVars, raceVars>>
    \/ \E o \in Objects : MethodTableTransition(o) /\ UNCHANGED <<sizeBits, comVars, raceVars>>
    \/ BackgroundGC /\ UNCHANGED <<sizeBits, comVars, raceVars>>
    \/ BackgroundSweep /\ UNCHANGED <<sizeBits, comVars, raceVars>>

SpecValidate == Init /\ [][NextValidate]_vars

\* one thread making both kinds of call (byrefs outside the heap and into ObjA),
\* the collector processing the list, and a background GC going on or not
NextSweep ==
    \/ \E c \in {<<5, NULL, NULL>>, <<2, NULL, NULL>>} :
            ValidateByref(1, c[1], c[2], c[3]) /\ UNCHANGED <<sizeBits, comVars, raceVars>>
    \/ AcquireLock(1) /\ UNCHANGED <<sizeBits, comVars, raceVars>>
    \/ CheckCapacity(1) /\ UNCHANGED <<sizeBits, comVars, raceVars>>
    \/ WriteEntry(1) /\ UNCHANGED <<sizeBits, comVars, raceVars>>
    \/ IncrementIndex(1) /\ UNCHANGED <<sizeBits, comVars, raceVars>>
    \/ CheckHighWaterMark(1) /\ UNCHANGED <<sizeBits, comVars, raceVars>>
    \/ Return(1) /\ UNCHANGED <<sizeBits, comVars, raceVars>>
    \/ \E o \in {NULL, ObjA, ObjB}, c \in {<<MD1, NULL>>} :
            ValidateObject(1, o, c[1], c[2]) /\ UNCHANGED <<sizeBits, comVars, rd>>
    \/ ReadNextMethodTable(1) /\ UNCHANGED <<sizeBits, comVars, rd>>
    \/ ValidateNextObj(1) /\ UNCHANGED <<sizeBits, comVars, rd>>
    \/ SuspendEE /\ UNCHANGED <<sizeBits, comVars, raceVars>>
    \/ DrainStep /\ UNCHANGED <<sizeBits, comVars, raceVars>>
    \/ DrainReadNext /\ UNCHANGED <<sizeBits, comVars, raceVars>>
    \/ DrainValidateNext /\ UNCHANGED <<sizeBits, comVars, raceVars>>
    \/ DrainEnd /\ UNCHANGED <<sizeBits, comVars, raceVars>>
    \/ ResumeEE /\ UNCHANGED <<sizeBits, comVars, raceVars>>
    \/ \E o \in Objects : ForeignWrite(o) /\ UNCHANGED <<sizeBits, comVars, raceVars>>
    \/ \E o \in Objects : MethodTableTransition(o) /\ UNCHANGED <<sizeBits, comVars, raceVars>>
    \/ BackgroundGC /\ UNCHANGED <<sizeBits, comVars, raceVars>>
    \/ BackgroundSweep /\ UNCHANGED <<sizeBits, comVars, raceVars>>
SpecSweep == Init /\ [][NextSweep]_vars

\* the threads appending byrefs (outside the heap and into ObjA) and the
\* collections they ask for, with the wider SIZE_T
NextThrottle ==
    \/ \E t \in Threads, c \in {<<5, NULL, NULL>>, <<2, NULL, NULL>>} :
            ValidateByref(t, c[1], c[2], c[3]) /\ UNCHANGED <<sizeBits, comVars, raceVars>>
    \/ \E t \in Threads : AcquireLock(t) /\ UNCHANGED <<sizeBits, comVars, raceVars>>
    \/ \E t \in Threads : CheckCapacity(t) /\ UNCHANGED <<sizeBits, comVars, raceVars>>
    \/ \E t \in Threads : WriteEntry(t) /\ UNCHANGED <<sizeBits, comVars, raceVars>>
    \/ \E t \in Threads : IncrementIndex(t) /\ UNCHANGED <<sizeBits, comVars, raceVars>>
    \/ \E t \in Threads : CheckHighWaterMark(t) /\ UNCHANGED <<sizeBits, comVars, raceVars>>
    \/ \E t \in Threads : Return(t) /\ UNCHANGED <<sizeBits, comVars, raceVars>>
    \/ SuspendEE /\ UNCHANGED <<sizeBits, comVars, raceVars>>
    \/ DrainStep /\ UNCHANGED <<sizeBits, comVars, raceVars>>
    \/ DrainReadNext /\ UNCHANGED <<sizeBits, comVars, raceVars>>
    \/ DrainValidateNext /\ UNCHANGED <<sizeBits, comVars, raceVars>>
    \/ DrainEnd /\ UNCHANGED <<sizeBits, comVars, raceVars>>
    \/ ResumeEE /\ UNCHANGED <<sizeBits, comVars, raceVars>>

SpecThrottle == InitWide /\ [][NextThrottle]_vars

NextCom ==
    \/ \E itf \in Interfaces, slot \in Slots, cur \in Contexts :
            GetCOMIPFromRCW(itf, slot, cur) /\ UNCHANGED <<sizeBits, qvars, raceVars>>
    \/ GetCOMIPFromRCWHelper /\ UNCHANGED <<sizeBits, qvars, raceVars>>
    \/ ReturnCom /\ UNCHANGED <<sizeBits, qvars, raceVars>>

SpecCom == InitCom /\ [][NextCom]_vars

(***************************************************************************)
(* Properties of the validation list.                                      *)
(***************************************************************************)
ContainingObjects(es) == [i \in 1..Len(es) |-> GetContainingObject(es[i].pByref)]

\* C1: a drain that runs to its end without a validation failure has handed to
\* the validator the containing object of every entry whose append had completed
\* when the drain began, whatever the interleaving of the appending threads, and
\* leaves the live count at 0.
C1_DrainVisitsEveryEntry ==
    gcPhase = "drained" => (index = 0 /\ visited = ContainingObjects(snap))

\* three appends of distinct in-heap pointers completed, then a drain ran to its end
C1_Witness ==
    /\ gcPhase = "drained"
    /\ Len(snap) = 3
    /\ Cardinality({snap[i].pByref : i \in 1..3}) = 3
    /\ \A i \in 1..3 : IsHeapPointer(snap[i].pByref)
    /\ Len(visited) = 3

\* C2: when an entry fails validation in the drain the fatal-error handler is
\* called exactly once, and the message it is given (when one could be formatted)
\* names the method recorded in the failing entry, or says CALLI when the entry
\* records no method.
C2_DrainBlamesFailingEntry ==
    (terminated /\ termBy[1] = "drain") =>
        /\ terminateCalls = 1
        /\ termMsg # NoMessage =>
             LET md == entries[termBy[2] + 1].pMD
             IN IF md = NULL
                THEN termMsg[Len(termMsg)] = "CALLI."
                ELSE \E k \in 1..(Len(termMsg) - 2) :
                        /\ termMsg[k] = ClassNameOf(md)
                        /\ termMsg[k + 2] = MethodNameOf(md)

\* the second entry of the list failed, it records a method and the first one does not
C2_Witness ==
    /\ terminated
    /\ termBy = <<"drain", 1>>
    /\ termMsg # NoMessage
    /\ entries[2].pMD = InvokeMD
    /\ entries[1].pMD = NULL

\* C6: ValidateByref with a pointer outside the heap range changes neither the
\* live count nor the capacity nor any stored entry, does not take the lock and
\* requests no collection.
C6_OutsideHeapIsNoOp ==
    [][\A t \in Threads, c \in ByrefCalls :
          (ValidateByref(t, c[1], c[2], c[3]) /\ (c[1] < HeapLo \/ c[1] > HeapHi)) =>
              /\ UNCHANGED <<index, entries, lockOwner, appended>>
              /\ pc'[t] = "ret"
              /\ result'[t] = "noop"]_vars

\* a call with a pointer outside the heap returns while the list holds entries
C6_Witness ==
    \E t \in Threads : pc[t] = "ret" /\ result[t] = "noop" /\ index > 0

\* C7: growing the list keeps every entry below the live count at its index, and
\* the append that grew it stores its entry right after them.
C7_GrowthKeepsEntries ==
    [][\A t \in Threads :
          /\ (CheckCapacity(t) /\ Len(entries') > Len(entries)) =>
                \A i \in 1..index : entries'[i] = entries[i]
          /\ (WriteEntry(t) /\ grew[t]) =>
                /\ entries'[index + 1] = tEntry[t]
                /\ \A i \in 1..index : entries'[i] = entries[i]]_vars

\* an append grew the list from capacity 1 to 3 and stored its entry at index 1
C7_Witness ==
    \E t \in Threads :
        /\ pc[t] = "inc"
        /\ grew[t]
        /\ index = 1
        /\ Len(entries) = 3
        /\ entries[1] # NoEntry
        /\ entries[2] = tEntry[t]

\* C8: the live count never exceeds the capacity, and no append writes at an
\* index that is not below the capacity.
C8_IndexWithinCapacity == index <= Len(entries) /\ ~oobWrite

\* an append after a drain: the entries of before the drain are still in the buffer
C8_Witness ==
    /\ \A t \in Threads : pc[t] = "idle"
    /\ gcPhase = "none"
    /\ index = 1
    /\ Len(entries) = 3
    /\ entries[2] # NoEntry

\* C9: a drain validates only entries appended since the previous drain began;
\* with none it validates nothing and does not terminate the process.
C9_DrainOnlyNewEntries ==
    gcPhase # "none" =>
        /\ Len(visited) <= Len(snap)
        /\ \A i \in 1..Len(visited) : visited[i] = GetContainingObject(snap[i].pByref)
        /\ snap = <<>> => (visited = <<>> /\ ~terminated)

\* a drain with no new entry ran to its end although the entry left in the buffer
\* by the previous drain now points into a corrupted object
C9_Witness ==
    /\ gcPhase = "drained"
    /\ snap = <<>>
    /\ Len(entries) > 0
    /\ entries[1] # NoEntry
    /\ mt[GetContainingObject(entries[1].pByref)] = "corrupt"

\* C11: when the list is full and 2 * index + 1 does not fit the machine word,
\* ValidateByref leaves with the overflow error: the process is not terminated,
\* the lock is released, and the live count, the capacity and every stored entry
\* are as before.
C11_OverflowIsLocal ==
    [][\A t \in Threads :
          (CheckCapacity(t) /\ index >= Len(entries) /\ 2 * index + 1 > SIZE_T_MAX) =>
              /\ result'[t] = "overflow"
              /\ pc'[t] = "ret"
              /\ lockOwner' = 0
              /\ ~terminated'
              /\ UNCHANGED <<index, entries, appended>>]_vars

\* a call left with the overflow error, the full list is still there, the lock free
C11_Witness ==
    \E t \in Threads :
        /\ pc[t] = "ret"
        /\ result[t] = "overflow"
        /\ lockOwner = 0
        /\ index = Len(entries)
        /\ index = Len(appended)
        /\ \A i \in 1..index : entries[i] = appended[i]
        /\ ~Dead

DrainFailed == terminated /\ termBy # <<>> /\ termBy[1] = "drain"

\* C13 as stated: the live count is 0 after every execution of the drain, whether
\* or not a validation failed.
C13_IndexResetAlways == (gcPhase = "drained" \/ DrainFailed) => index = 0

\* C13 as amended: the live count is 0 after every drain that returns; a drain that
\* finds a failure ends in the fatal error before line 176 and leaves the live
\* count as it was, above the index of the failing entry.
C13_IndexResetOnReturn ==
    /\ gcPhase = "drained" => index = 0
    /\ DrainFailed => (index = Len(snap) /\ index > termBy[2])

\* a drain of two entries has returned and the live count is 0
C13_Witness ==
    /\ gcPhase = "drained"
    /\ Len(visited) = 2
    /\ index = 0
    /\ entries[2] # NoEntry

\* the step ends in the fatal error, with the message of the entry or with none,
\* and the loop has neither moved on nor returned
EndsInFatalError(entry) ==
    /\ terminated'
    /\ terminateCalls' = terminateCalls + 1
    /\ termMsg' \in {NoMessage, FormatValidationMessage(entry.pMD)}
    /\ UNCHANGED <<gcPhase, drainI, index>>

\* C14: a validation failure in the drain ends in the fatal error also when the
\* message cannot be formatted (then without a message); the drain neither goes
\* on nor returns.
C14_FormatFailureIsFatal ==
    [][/\ (DrainStep /\ ValidateThrows(
                mt, GetContainingObject(EntryAt(entries, drainI).pByref))) =>
            EndsInFatalError(EntryAt(entries, drainI))
       /\ (DrainValidateNext
               /\ ValidateNextThrows(mt, drainNext.next, drainNext.pMT)) =>
            EndsInFatalError(drainEntry)]_vars

\* the drain ended in the fatal error without a message
C14_Witness ==
    /\ DrainFailed
    /\ termMsg = NoMessage
    /\ terminateCalls = 1
    /\ gcPhase = "suspended"

\* C16: while the list is processed no thread is between taking and releasing
\* the lock of the list.
C16_NoAppendDuringDrain ==
    gcPhase # "none" =>
        /\ lockOwner = 0
        /\ \A t \in Threads : pc[t] \notin {"check", "write", "inc"}

\* the list is processed while one thread waits for the lock and the other for
\* the collection it asked for
C16_Witness ==
    /\ gcPhase = "suspended"
    /\ drainI = 1
    /\ \E t \in Threads : pc[t] = "lock"
    /\ \E t \in Threads : pc[t] = "gc"

\* C17: a call asks for a collection exactly when the live count its own append
\* produced is above the high-water mark, after the lock is released, and a call
\* that appended nothing never asks.
C17_CollectionRequest ==
    [][\A t \in Threads :
          /\ IncrementIndex(t) => numOf'[t] = index + 1
          /\ CheckHighWaterMark(t) =>
                (pc'[t] = "gc" <=> numOf[t] > BYREF_VALIDATION_LIST_MAX_SIZE)
          /\ (pc[t] # "gc" /\ pc'[t] = "gc") =>
                (pc[t] = "post" /\ lockOwner # t /\ lockOwner' # t)]_vars

\* a call whose append made the list exceed the mark waits for the collection,
\* and one whose own count was at the mark returned although the list is above it
C17_Witness ==
    \E t, u \in Threads :
        /\ pc[t] = "gc"
        /\ pc[u] = "ret"
        /\ result[u] = "appended"
        /\ index > BYREF_VALIDATION_LIST_MAX_SIZE

\* the threads whose own append went beyond the high-water mark and that are
\* about to ask for a collection, or wait for the one they asked for
Overshot ==
    {t \in Threads : \/ pc[t] = "gc"
                     \/ pc[t] = "post" /\ numOf[t] > BYREF_VALIDATION_LIST_MAX_SIZE}

\* C22: with the collection a call asks for run, list processing included, before
\* that call returns, the live count is never more than the high-water mark
\* plus the number of threads: every entry beyond the mark belongs to a thread
\* that is held until the list is processed.
C22_BoundedOvershoot ==
    /\ index <= BYREF_VALIDATION_LIST_MAX_SIZE + Cardinality(Overshot)
    /\ index <= BYREF_VALIDATION_LIST_MAX_SIZE + Cardinality(Threads)

\* the live count is the mark plus the number of threads: each thread appended
\* one entry beyond the mark and waits at line 703 for the collection it asked for
C22_Witness ==
    /\ gcPhase = "none"
    /\ index = BYREF_VALIDATION_LIST_MAX_SIZE + Cardinality(Threads)
    /\ Len(entries) >= index
    /\ Overshot = Threads
    /\ \A t \in Threads : pc[t] = "gc"

(***************************************************************************)
(* Properties of the synchronous validation.                               *)
(***************************************************************************)
\* C10: a validation failure in ValidateObject, of the object or of the next one,
\* always ends in the end of the process (the fatal error, or the death of the
\* process), also when formatting the message fails.
C10_FailureAlwaysTerminates ==
    [][/\ \A t \in Threads, o \in {NULL, ObjA, ObjB}, c \in CallSites :
            (ValidateObject(t, o, c[1], c[2]) /\ ValidateThrows(mt, o)) => Dead'
       /\ \A t \in Threads :
            (ValidateNextObj(t)
                /\ ValidateNextThrows(mt, vNext[t].next, vNext[t].pMT)) => Dead']_vars

(***************************************************************************)
(* Properties of the COM calls.                                            *)
(***************************************************************************)
HasEntry(itf) == \E i \in 1..INTERFACE_ENTRY_CACHE_SIZE : cache[i].m_pMT = itf
CachedPointer(itf) ==
    cache[CHOOSE i \in 1..INTERFACE_ENTRY_CACHE_SIZE :
            cache[i].m_pMT = itf /\ \A j \in 1..(i - 1) : cache[j].m_pMT # itf].m_pUnknown

\* C3: with an entry of the interface in the cache, the caller in the wrapper's
\* context and a non-null dispatch-table slot, the call returns the cached pointer,
\* the target read from its dispatch table at the cached slot, *pfNeedsRelease
\* false, and the resolver is not called.
C3_FastPathHit ==
    [][\A itf \in Interfaces, slot \in Slots, cur \in Contexts :
          (/\ GetCOMIPFromRCW(itf, slot, cur)
           /\ hasRCW /\ HasEntry(itf) /\ cur = wrapperCtx
           /\ VtblSlot(CachedPointer(itf), slot) # NULL) =>
              /\ comPc' = "ret"
              /\ comRes' = [status |-> "ok", pUnk |-> CachedPointer(itf),
                            target |-> VtblSlot(CachedPointer(itf), slot),
                            needsRelease |-> FALSE]
              /\ slowCalls' = 0]_vars

\* a call in the context of a wrapper that is not free-threaded returned a borrowed
\* pointer through slot 1
C3_Witness ==
    /\ comPc = "ret"
    /\ comRes.status = "ok"
    /\ ~comRes.needsRelease
    /\ slowCalls = 0
    /\ ~freeThreaded
    /\ comArgs.cur = wrapperCtx
    /\ comArgs.slot = 1

\* C4: with no entry of the interface in the cache the call goes to the resolver,
\* which is called exactly once; when it succeeds the cache holds the interface
\* with the returned pointer, and *pfNeedsRelease is true.
C4_MissResolvesOnce ==
    [][/\ \A itf \in Interfaces, slot \in Slots, cur \in Contexts :
            (GetCOMIPFromRCW(itf, slot, cur) /\ ~HasEntry(itf)) =>
                (comPc' = "slow" /\ comRes'.needsRelease /\ slowCalls' = 0)
       /\ GetCOMIPFromRCWHelper =>
            /\ slowCalls' = 1
            /\ comRes'.needsRelease
            /\ comRes'.status = "ok" =>
                 \E i \in 1..INTERFACE_ENTRY_CACHE_SIZE :
                    cache'[i] = [m_pMT |-> comArgs.itf, m_pUnknown |-> comRes'.pUnk]
       /\ (ReturnCom /\ comRes.needsRelease) => slowCalls = 1]_vars

\* a call that found no entry is back from the resolver with an owned pointer
C4_Witness ==
    /\ comPc = "ret"
    /\ comRes.status = "ok"
    /\ comRes.needsRelease
    /\ slowCalls = 1
    /\ HasEntry(comArgs.itf)
    /\ \E i \in 1..INTERFACE_ENTRY_CACHE_SIZE : cache[i] = FreeEntry

\* C5: for a free-threaded wrapper an entry of the interface is returned by the
\* fast path also when the caller's context is not the wrapper's.
C5_FreeThreadedAnyContext ==
    [][\A itf \in Interfaces, slot \in Slots, cur \in Contexts :
          (/\ GetCOMIPFromRCW(itf, slot, cur)
           /\ hasRCW /\ freeThreaded /\ HasEntry(itf)
           /\ VtblSlot(CachedPointer(itf), slot) # NULL) =>
              /\ comPc' = "ret"
              /\ comRes'.pUnk = CachedPointer(itf)
              /\ ~comRes'.needsRelease]_vars

\* a call from another context on a free-threaded wrapper returned a borrowed pointer
C5_Witness ==
    /\ comPc = "ret"
    /\ comRes.status = "ok"
    /\ ~comRes.needsRelease
    /\ freeThreaded
    /\ comArgs.cur # wrapperCtx

\* C18: the MethodTable pointer of the next object is read once and the decision
\* is made on that value: when the value read is NULL or the free-object
\* MethodTable, the next object is not validated and the call ends without a
\* failure, whatever the pointer has become in the meantime; when it is validated
\* and fails, the value read was neither.
C18_NextObjReadOnce ==
    [][\A t \in Threads :
          /\ ReadNextMethodTable(t) => vNext'[t].pMT = mt[vNext[t].next]
          /\ ValidateNextObj(t) => vNext'[t].pMT = vNext[t].pMT
          /\ (ValidateNextObj(t) /\ vNext[t].pMT \in {"null", g_pFreeObjectMethodTable}) =>
                /\ terminated' = terminated
                /\ result'[t] = "valid"
                /\ pc'[t] = "ret"
          /\ (ValidateNextObj(t) /\ result'[t] # "valid") =>
                vNext[t].pMT \notin {"null", g_pFreeObjectMethodTable}]_vars

\* the value read was the free-object MethodTable, the pointer is NULL by now,
\* and the call ended as valid
C18_Witness ==
    \E t \in Threads :
        /\ pc[t] = "ret"
        /\ result[t] = "valid"
        /\ vNext[t].next = ObjB
        /\ vNext[t].pMT = g_pFreeObjectMethodTable
        /\ mt[ObjB] = "null"
        /\ ~Dead

C21_NextObjUnlessBackgroundGC ==
    [][/\ \A t \in Threads, o \in {NULL, ObjA, ObjB}, c \in CallSites :
            ValidateObject(t, o, c[1], c[2]) =>
                /\ pc'[t] = "vread" <=>
                      (~bgc /\ NextObj(o) # NULL /\ ~ValidateThrows(mt, o))
                /\ bgc => ((Dead' \/ result'[t] = "format_exception")
                              <=> ValidateThrows(mt, o))
       /\ DrainStep =>
            LET pObj == GetContainingObject(EntryAt(entries, drainI).pByref)
            IN /\ (drainNext' # NoDrainNext) <=>
                     (NextObj(pObj) # NULL /\ ~ValidateThrows(mt, pObj))
               /\ drainNext' # NoDrainNext => drainNext'.next = NextObj(pObj)
       /\ (DrainValidateNext /\ drainNext.pMT = "legal"
               /\ ValidateThrows(mt, drainNext.next)) => terminated']_vars

\* during a background GC, with the object after ObjA corrupted: a call of
\* ValidateObject on ObjA came back as valid, and the processing of the list
\* failed on an entry inside ObjA
C21_Witness ==
    /\ bgc
    /\ mt[ObjA] = "legal" /\ mt[ObjB] = "corrupt"
    /\ pc[1] = "ret" /\ result[1] = "valid"
    /\ vNext[1].obj = ObjA /\ vNext[1].next = NULL
    /\ DrainFailed
    /\ GetContainingObject(drainEntry.pByref) = ObjA

\* C12: a failure of the resolver on the slow path comes back as an exception of
\* the call: the process is not terminated, and a call that returns as successful
\* always carries the pointer that was resolved.
C12_ResolverFailureIsException ==
    comPc = "ret" =>
        /\ comRes.status \in {"ok", "exception"}
        /\ comRes.status = "ok" <=> comRes.pUnk # NULL
        /\ comRes.status = "exception" =>
              /\ slowCalls = 1
              /\ comRes.target = NULL
              /\ ~Dead

\* the resolver failed on a live wrapper and the call ended with the exception
C12_Witness ==
    /\ comPc = "ret"
    /\ comRes.status = "exception"
    /\ hasRCW
    /\ slowCalls = 1

\* C19: for a wrapper that is not free-threaded and a caller in another context
\* the fast path returns nothing, also when the cache has an entry of the
\* interface; the resolver is called and what it returns is owned by the caller.
C19_OtherContextTakesSlowPath ==
    [][/\ \A itf \in Interfaces, slot \in Slots, cur \in Contexts :
            (GetCOMIPFromRCW(itf, slot, cur) /\ ~freeThreaded /\ cur # wrapperCtx) =>
                /\ comPc' = "slow"
                /\ comRes'.pUnk = NULL
       /\ (GetCOMIPFromRCWHelper /\ ~freeThreaded /\ comArgs.cur # wrapperCtx) =>
                /\ slowCalls' = 1
                /\ comRes'.status = "ok" =>
                      /\ comRes'.pUnk = QueryInterface(comArgs.itf)
                      /\ comRes'.needsRelease]_vars

\* a call from another context went to the slow path although the cache has a
\* usable entry of the interface
C19_Witness ==
    /\ comPc = "slow"
    /\ hasRCW /\ ~freeThreaded
    /\ comArgs.cur # wrapperCtx
    /\ HasEntry(comArgs.itf)
    /\ VtblSlot(CachedPointer(comArgs.itf), comArgs.slot) # NULL

\* what the lookup in the cache yields for a caller in context cur
LookedUp(itf, cur) ==
    IF hasRCW /\ (cur = wrapperCtx \/ freeThreaded) /\ HasEntry(itf)
    THEN CachedPointer(itf) ELSE NULL

\* C20: the call goes to the slow path exactly when the lookup yields nothing or
\* the dispatch-table slot of the pointer it yields is null; it then keeps nothing
\* of the fast path and calls the resolver; a successful call has *pfNeedsRelease
\* true exactly when its pointer is the resolver's.
C20_SlowPathAndOwnership ==
    [][/\ \A itf \in Interfaces, slot \in Slots, cur \in Contexts :
            GetCOMIPFromRCW(itf, slot, cur) =>
                /\ comPc' = "slow" <=>
                      (\/ LookedUp(itf, cur) = NULL
                       \/ VtblSlot(LookedUp(itf, cur), slot) = NULL)
                /\ comPc' = "slow" => (comRes'.pUnk = NULL /\ comRes'.needsRelease)
       /\ GetCOMIPFromRCWHelper => slowCalls' = 1
       /\ (comPc' = "ret" /\ comRes'.status = "ok") =>
                (comRes'.needsRelease <=> slowCalls' = 1)]_vars

\* the cache has the entry, the caller is in the wrapper's context, the slot is
\* null: the call is on the slow path with *pfNeedsRelease already true
C20_Witness ==
    /\ comPc = "slow"
    /\ LookedUp(comArgs.itf, comArgs.cur) # NULL
    /\ VtblSlot(LookedUp(comArgs.itf, comArgs.cur), comArgs.slot) = NULL
    /\ comRes.needsRelease

=============================================================================
